---- MODULE Spec2Model ----
(***************************************************************************)
(* A model of src/app.py: the spreadsheet -> images -> ZIP pipeline.       *)
(*                                                                         *)
(* Strings are sequences of one-character strings, so that str.lower,      *)
(* str.strip, str.endswith, the "in" substring test and the f-string that  *)
(* builds a file name are computed and not assumed.                        *)
(***************************************************************************)
EXTENDS Integers, Sequences, FiniteSets, TLC

\* ------------------------------------------------------------ bounds

\* Rows of the uploaded spreadsheet.
MaxRows == 3

\* ------------------------------------------------------------ strings

\* The value None (lines 84 and 139). A string is a sequence of one-character
\* strings, so None equals no string.
None == <<"None">>

\* str.lower on one character.
LowerChar(c) ==
    CASE c = "A" -> "a" [] c = "G" -> "g" [] c = "J" -> "j" [] c = "K" -> "k"
      [] c = "L" -> "l" [] c = "N" -> "n" [] c = "P" -> "p" [] c = "R" -> "r"
      [] c = "S" -> "s" [] c = "U" -> "u" [] OTHER -> c

\* str.lower
Lower(s) == [i \in 1..Len(s) |-> LowerChar(s[i])]

\* The characters str.strip removes.
WhiteSpace == {" ", "\t"}

RECURSIVE LStrip(_)
LStrip(s) == IF s # <<>> /\ Head(s) \in WhiteSpace THEN LStrip(Tail(s)) ELSE s

RECURSIVE RStrip(_)
RStrip(s) ==
    IF s # <<>> /\ s[Len(s)] \in WhiteSpace THEN RStrip(SubSeq(s, 1, Len(s) - 1)) ELSE s

\* str.strip
Strip(s) == RStrip(LStrip(s))

\* str.endswith with one suffix.
EndsWith(s, suf) ==
    /\ Len(s) >= Len(suf)
    /\ SubSeq(s, Len(s) - Len(suf) + 1, Len(s)) = suf

\* The "in" test of a non-empty substring.
Contains(s, sub) ==
    \E i \in 1..(Len(s) - Len(sub) + 1) : SubSeq(s, i, i + Len(sub) - 1) = sub

\* str of a positive integer.
RECURSIVE Digits(_)
Digits(n) ==
    LET d == <<"0", "1", "2", "3", "4", "5", "6", "7", "8", "9">>
    IN  IF n < 10 THEN <<d[n + 1]>> ELSE Digits(n \div 10) \o <<d[(n % 10) + 1]>>

\* The suffixes of is_direct_image_url and of the fallback scan.
ImageSuffixes ==
    { <<".", "j", "p", "g">>, <<".", "j", "p", "e", "g">>,
      <<".", "p", "n", "g">>, <<".", "w", "e", "b", "p">> }

S_amazon == <<"a", "m", "a", "z", "o", "n", ".">>
S_nan == <<"n", "a", "n">>
S_SL1500 == <<"S", "L", "1", "5", "0", "0">>

\* A spreadsheet cell as pandas hands it over: a string, or the missing value NaN.
StrCell(s) == [kind |-> "str", s |-> s]
NanCell == [kind |-> "nan", s |-> <<>>]

\* str(row[...]): the missing value prints as "nan".
Str(cell) == IF cell.kind = "nan" THEN S_nan ELSE cell.s

\* ------------------------------------------------------------ UrlClassifier

is_direct_image_url(url) ==
    LET url_lower == Lower(url)
    IN  \E suf \in ImageSuffixes : EndsWith(url_lower, suf)

\* The "amazon." test of the elif.
IsAmazonUrl(url) == Contains(url, S_amazon)

\* The guard without its test of "nan".
RowInvalidNoNan(sku_, url_) == sku_ = <<>> \/ url_ = <<>>

\* The row guard: "not sku or not url or url.lower() == 'nan'".
RowInvalid(sku_, url_) == sku_ = <<>> \/ url_ = <<>> \/ Lower(url_) = S_nan

\* ------------------------------------------------------------ ProductPageImageResolver

\* A token of a data-a-dynamic-image value: { } : , a string, or an array of two numbers.
Tok(t) == [t |-> t, v |-> <<>>]
StrTok(s) == [t |-> "str", v |-> s]

\* The attribute is not on the element (img.get returns None).
NoDyn == <<Tok("absent")>>

\* The members of a JSON object: "key": value, "key": value ...
RECURSIVE MembersOk(_)
MembersOk(m) ==
    /\ Len(m) >= 3
    /\ m[1].t = "str"
    /\ m[2].t = "colon"
    /\ m[3].t \in {"arr", "str"}
    /\ \/ Len(m) = 3
       \/ /\ Len(m) >= 5
          /\ m[4].t = "comma"
          /\ MembersOk(SubSeq(m, 5, Len(m)))

\* The keys of a dict in insertion order: a repeated key keeps its first place.
RECURSIVE MemberKeys(_, _)
MemberKeys(m, seen) ==
    IF Len(m) < 3 THEN <<>>
    ELSE (IF m[1].v \in seen THEN <<>> ELSE <<m[1].v>>)
         \o MemberKeys(SubSeq(m, 5, Len(m)), seen \cup {m[1].v})

\* json.loads: ok is FALSE when it raises; isdict tells a dict from any other value.
JsonLoads(toks) ==
    LET n == Len(toks)
        inner == SubSeq(toks, 2, n - 1)
    IN  IF n = 1 /\ toks[1].t \in {"arr", "str"}
        THEN [ok |-> TRUE, isdict |-> FALSE, keys |-> <<>>]
        ELSE IF n >= 2 /\ toks[1].t = "lbrace" /\ toks[n].t = "rbrace"
                  /\ (n = 2 \/ MembersOk(inner))
        THEN [ok |-> TRUE, isdict |-> TRUE, keys |-> MemberKeys(inner, {})]
        ELSE [ok |-> FALSE, isdict |-> FALSE, keys |-> <<>>]

\* An img element: its id and the three attributes the parser reads.
Img(id, hires, dyn, src) == [id |-> id, hires |-> hires, dyn |-> dyn, src |-> src]

\* "if not val" of a string attribute.
Falsy(val) == val = None \/ val = <<>>

\* "if not val" of the data-a-dynamic-image attribute.
FalsyDyn(val) == val = NoDyn \/ val = <<>>

\* soup.find("img", id="landingImage"): the index of the first such element, 0 if none.
FindLanding(doc) ==
    LET hits == { i \in 1..Len(doc) : doc[i].id = "landingImage" }
    IN  IF hits = {} THEN 0 ELSE CHOOSE i \in hits : \A j \in hits : i <= j

\* The branch taking the last key of the map.
DynLastKey(val) ==
    LET data == JsonLoads(val)
    IN  IF data.ok /\ data.isdict /\ data.keys # <<>>
        THEN [hit |-> TRUE, val |-> data.keys[Len(data.keys)]]
        ELSE [hit |-> FALSE, val |-> None]

\* The branch of the attribute loop for data-a-dynamic-image.
DynFirstKey(val) ==
    LET data == JsonLoads(val)
    IN  IF data.ok /\ data.isdict /\ data.keys # <<>>
        THEN [hit |-> TRUE, val |-> data.keys[1]]
        ELSE [hit |-> FALSE, val |-> None]

\* The loop over ("data-old-hires", "data-a-dynamic-image", "src") of the landing image.
LandingAttrs(img) ==
    IF ~Falsy(img.hires) THEN [hit |-> TRUE, val |-> img.hires]
    ELSE IF ~FalsyDyn(img.dyn) /\ DynFirstKey(img.dyn).hit THEN DynFirstKey(img.dyn)
    ELSE IF ~Falsy(img.src) THEN [hit |-> TRUE, val |-> img.src]
    ELSE [hit |-> FALSE, val |-> None]

\* The test of the fallback scan on one src.
FallbackMatch(src) ==
    /\ ~Falsy(src)
    /\ \/ Contains(src, S_SL1500)
       \/ \E suf \in ImageSuffixes : EndsWith(src, suf)

\* The fallback scan over soup.find_all("img").
FallbackScan(doc) ==
    LET hits == { i \in 1..Len(doc) : FallbackMatch(doc[i].src) }
    IN  IF hits = {} THEN None
        ELSE doc[CHOOSE i \in hits : \A j \in hits : i <= j].src

\* get_amazon_main_image_url on the parsed page.
get_amazon_main_image_url(doc) ==
    LET l == FindLanding(doc)
    IN  IF l # 0 /\ LandingAttrs(doc[l]).hit THEN LandingAttrs(doc[l]).val
        ELSE FallbackScan(doc)

\* ------------------------------------------------------------ ImageNormalizer

\* The default of the parameter target.
Target == 1500

Max(a, b) == IF a >= b THEN a ELSE b

\* int(d * scale) with scale = min(target / w, target / h), computed in floating
\* point: the quotient d * target / max(w, h) rounded down, and, when the division
\* is exact, possibly one less (the product may round to just under the integer).
ScaledDim(d, w, h, target) ==
    LET m == Max(w, h)
        q == (d * target) \div m
    IN  {q} \cup (IF (d * target) % m = 0 THEN {q - 1} ELSE {})

\* The resize branch without its max(1, ...).
ResizedNoFloor(w, h, target) ==
    IF w > target \/ h > target
    THEN { [w |-> nw, h |-> nh, resized |-> TRUE] :
             nw \in ScaledDim(w, w, h, target), nh \in ScaledDim(h, w, h, target) }
    ELSE { [w |-> w, h |-> h, resized |-> FALSE] }

\* The image after the resize branch: its size, and whether it was resized.
Resized(w, h, target) ==
    IF w > target \/ h > target
    THEN { [w |-> Max(1, nw), h |-> Max(1, nh), resized |-> TRUE] :
             nw \in ScaledDim(w, w, h, target), nh \in ScaledDim(h, w, h, target) }
    ELSE { [w |-> w, h |-> h, resized |-> FALSE] }

\* normalize_to_canvas on a decoded image of size w x h: the canvas, the pasted
\* image and where it is pasted.
normalize_to_canvas(w, h, target) ==
    { [canvas_w |-> target, canvas_h |-> target,
       w |-> r.w, h |-> r.h, resized |-> r.resized,
       offset_x |-> (target - r.w) \div 2,
       offset_y |-> (target - r.h) \div 2] : r \in Resized(w, h, target) }

\* ------------------------------------------------------------ ArchiveBuilder

\* f"{base_name}-{counter}.jpg"
FileName(base_name, counter) ==
    base_name \o <<"-">> \o Digits(counter) \o <<".", "j", "p", "g">>

\* zipf.namelist() of an archive kept as the sequence of the names written.
NameList(zip) == { zip[i] : i \in 1..Len(zip) }

\* The while loop: the first counter from c on whose name is not in the archive.
RECURSIVE FreeCounter(_, _, _)
FreeCounter(base_name, c, names) ==
    IF FileName(base_name, c) \in names THEN FreeCounter(base_name, c + 1, names) ELSE c

\* The name without the while loop.
EntryNameNoLoop(sku_, zip) == FileName(sku_, 1)

\* The name numbered by the entries of the whole archive.
EntryNameGlobal(sku_, zip) == FileName(sku_, Len(zip) + 1)

\* Lines 154-159: the name the row's entry is written under.
EntryName(sku_, zip) == FileName(sku_, FreeCounter(sku_, 1, NameList(zip)))

\* The archive opened anew for each row: the entry replaces what was there.
WriteStrTruncate(zip, filename) == <<filename>>

\* zipf.writestr on an archive kept as the sequence of the names written.
WriteStr(zip, filename) == Append(zip, filename)

\* ------------------------------------------------------------ inputs

\* Header rows of the uploaded sheet.
Headers ==
    { <<<<"s", "k", "u">>, <<"u", "r", "l">>>>,
      <<<<" ", "S", "K", "U">>, <<"U", "r", "l", " ">>>>,
      <<<<"s", "k", "u">>>>,
      <<<<"U", "R", "L">>, <<"n", "a", "m", "e">>>>,
      <<<<"s", " ", "k", "u">>, <<"u", "r", "l">>>>,
      <<<<"S", "K", "U", " ">>, <<"l", "i", "n", "k">>>> }

U_direct == <<"i", ".", "J", "P", "G">>
U_padded == <<" ", "i", ".", "j", "p", "e", "g", " ">>
U_page == S_amazon \o <<"x">>
U_both == S_amazon \o <<"p", "n", "g">>
U_capital == <<"A", "m", "a", "z", "o", "n", ".", "x">>
U_query == <<"i", ".", "j", "p", "g", "?">>
U_webp == <<"w", ".", "w", "e", "b", "p">>
U_mid == S_amazon \o <<"j", "p", "g", "/">>

\* Cells of the sku column and of the url column.
SkuCells ==
    { StrCell(<<"A">>), StrCell(<<" ", "A", "\t">>), StrCell(<<"A", "-", "1">>),
      StrCell(<<" ">>), NanCell }

UrlCells ==
    { StrCell(U_direct), StrCell(U_padded), StrCell(U_page), StrCell(U_both),
      StrCell(U_capital), StrCell(U_query), StrCell(U_webp), StrCell(U_mid),
      StrCell(<<" ", " ">>),
      StrCell(<<"N", "a", "N">>), NanCell }

\* Attribute values of the pages served.
A_hires == <<"h", ".", "p", "n", "g">>
A_key1 == <<"i", "1", ".", "j", "p", "g">>
A_key2 == <<"i", "2">>
A_src == <<"s", ".", "w", "e", "b", "p">>
A_plain == <<"t">>
A_upper == <<"t", ".", "J", "P", "G">>
A_sl == S_SL1500 \o <<"_">>

\* {"i1.jpg": [500, 500]}
DynOne == <<Tok("lbrace"), StrTok(A_key1), Tok("colon"), Tok("arr"), Tok("rbrace")>>
\* {"i2": [1, 1], "i1.jpg": [500, 500], "i2": [2, 2]}
DynTwo ==
    <<Tok("lbrace"), StrTok(A_key2), Tok("colon"), Tok("arr"), Tok("comma"),
      StrTok(A_key1), Tok("colon"), Tok("arr"), Tok("comma"),
      StrTok(A_key2), Tok("colon"), Tok("arr"), Tok("rbrace")>>
\* {}
DynEmpty == <<Tok("lbrace"), Tok("rbrace")>>
\* {"i1.jpg": [500, 500]   (cut short)
DynCut == <<Tok("lbrace"), StrTok(A_key1), Tok("colon"), Tok("arr")>>
\* [500, 500]
DynArray == <<Tok("arr")>>
\* {"": [500, 500]}
DynEmptyKey == <<Tok("lbrace"), StrTok(<<>>), Tok("colon"), Tok("arr"), Tok("rbrace")>>

\* Pages the product URL may serve in a run.
PipelineDocs ==
    { <<>>,
      <<Img("landingImage", None, DynOne, None)>>,
      <<Img("landingImage", A_hires, DynOne, A_src)>>,
      <<Img("landingImage", <<>>, DynCut, U_page)>>,
      <<Img("landingImage", None, DynEmptyKey, A_src)>>,
      <<Img("other", None, NoDyn, A_plain), Img("other", None, NoDyn, A_sl)>> }

\* What a GET of an image URL may return: bytes that decode to an image of some
\* size, or bytes that do not decode.
NoBytes == [kind |-> "none", w |-> 0, h |-> 0]
Junk == [kind |-> "junk", w |-> 0, h |-> 0]
Picture(w, h) == [kind |-> "image", w |-> w, h |-> h]
PipelineImages == { Junk, Picture(2, 1), Picture(2 * Target, Target) }

\* Image sizes: the small ones, those around each multiple of the target, and every
\* Stride-th up to MaxDim.
SmallDim == 3
Window == 2
Stride == 250
MaxDim == 4600
Dims ==
    { d \in 1..MaxDim :
        \/ d <= SmallDim
        \/ d % Stride = 0
        \/ \E k \in 1..(MaxDim \div Target) :
              d - k * Target \in (0 - Window)..Window }

\* No normalization yet.
NoCanvas ==
    [canvas_w |-> 0, canvas_h |-> 0, w |-> 0, h |-> 0, resized |-> FALSE,
     offset_x |-> 0, offset_y |-> 0]

\* No resolution yet.
Unset == <<"unset">>

\* The img elements of a page: the landing image with every combination of its
\* attributes, and the plainer elements around it.
HiresVals == { None, <<>>, A_hires }
DynVals == { NoDyn, <<>>, DynOne, DynTwo, DynEmpty, DynCut, DynArray, DynEmptyKey }
SrcVals == { None, <<>>, A_src, A_plain, A_upper, A_sl }
LandingImgs ==
    { Img("landingImage", h, d, s) : h \in HiresVals, d \in DynVals, s \in SrcVals }
PlainImgs ==
    { Img("landingImage", None, NoDyn, None), Img("landingImage", None, NoDyn, A_src),
      Img("other", A_hires, DynOne, None), Img("other", None, NoDyn, A_plain),
      Img("other", None, NoDyn, A_upper), Img("other", None, NoDyn, A_sl) }

\* Pages of up to MaxImgs img elements, at most one of them not a plain one.
MaxImgs == 2
RECURSIVE PlainDocs(_)
PlainDocs(n) ==
    IF n = 0 THEN { <<>> }
    ELSE { Append(d, e) : d \in PlainDocs(n - 1), e \in PlainImgs }
Docs(max) ==
    UNION { PlainDocs(n) : n \in 0..max }
    \cup UNION { { a \o <<e>> \o b : a \in PlainDocs(p[2]), e \in LandingImgs,
                                      b \in PlainDocs(p[1] - 1 - p[2]) } :
                 p \in { q \in (1..max) \X (0..(max - 1)) : q[2] < q[1] } }

\* ------------------------------------------------------------ state

VARIABLES
    columns,      \* df.columns
    pc,           \* where download_images_from_excel is
    nRows,        \* rows of the sheet
    idx,          \* rows read so far
    row,          \* the row as read: the cells of its sku and url columns
    sku, url,     \* the row's sku and url
    kind,         \* the branch of the if / elif / else the row took
    image_url,    \* the URL the image is downloaded from
    image_bytes,  \* the bytes downloaded
    zip_buffer,   \* whether the buffer of the archive exists
    zipf,         \* the archive: its names in the order written
    skuOf, rowOf, \* for each entry, the sku and the row that wrote it
    outcome,      \* how the row ended, "pending" until it has
    outcomes,     \* for each row that ended: "Added", "Failed" or "Skipped"
    lastMiss,     \* the sku of the latest row that added nothing
    reqs,         \* the GETs made for the row, in order
    logs,         \* the st.write messages of the row, in order
    httpUsed,     \* whether the run has made any GET
    ui,           \* what the page shows for the run
    download,     \* whether the download button is offered
    nw, nh, canvas,   \* an image size and its normalization
    doc, resolved     \* a page and the URL resolved from it

pipeVars ==
    <<columns, pc, nRows, idx, row, sku, url, kind, image_url, image_bytes, zip_buffer,
      zipf, skuOf, rowOf, outcome, outcomes, lastMiss, reqs, logs, httpUsed, ui, download>>
pureVars == <<nw, nh, canvas, doc, resolved>>
vars == <<pipeVars, pureVars>>

PureIdle ==
    /\ nw = 1 /\ nh = 1 /\ canvas = NoCanvas
    /\ doc = <<>> /\ resolved = Unset

PipeInit ==
    /\ pc = "start"
    /\ idx = 0
    /\ row = [sku |-> NanCell, url |-> NanCell]
    /\ sku = None /\ url = None /\ kind = "none"
    /\ lastMiss = None
    /\ image_url = None /\ image_bytes = NoBytes
    /\ zip_buffer = "unset" /\ zipf = <<>> /\ skuOf = <<>> /\ rowOf = <<>>
    /\ outcome = "none" /\ outcomes = <<>> /\ reqs = <<>> /\ logs = <<>>
    /\ httpUsed = FALSE
    /\ ui = "spinner" /\ download = FALSE

\* The file is uploaded and "Start Download" pressed (lines 178-183).
Init ==
    /\ columns \in Headers
    /\ nRows \in 0..MaxRows
    /\ PipeInit
    /\ PureIdle

\* ------------------------------------------------------------ download_images_from_excel

\* Line 113.
NormalizeColumns(cols) == [i \in 1..Len(cols) |-> Lower(Strip(cols[i]))]

\* The test with "and" for "or": it raises only when both columns are missing.
HasRequiredColumnsEither(cols) ==
    \/ \E i \in 1..Len(cols) : cols[i] = <<"s", "k", "u">>
    \/ \E i \in 1..Len(cols) : cols[i] = <<"u", "r", "l">>

\* Line 115.
HasRequiredColumns(cols) ==
    /\ \E i \in 1..Len(cols) : cols[i] = <<"s", "k", "u">>
    /\ \E i \in 1..Len(cols) : cols[i] = <<"u", "r", "l">>

\* Lines 112-116 and 191-192: a required column is missing, the ValueError reaches
\* the caller, which shows it.
ReadExcelMissingColumns ==
    /\ pc = "start"
    /\ ~HasRequiredColumns(NormalizeColumns(columns))
    /\ columns' = NormalizeColumns(columns)
    /\ pc' = "raised"
    /\ ui' = "error"
    /\ UNCHANGED <<nRows, idx, row, sku, url, kind, image_url, image_bytes, zip_buffer,
                   zipf, skuOf, rowOf, outcome, outcomes, lastMiss, reqs, logs, httpUsed,
                   download>>
    /\ UNCHANGED pureVars

\* Lines 112-120: the sheet is read, the buffer and the archive are created.
ReadExcel ==
    /\ pc = "start"
    /\ HasRequiredColumns(NormalizeColumns(columns))
    /\ columns' = NormalizeColumns(columns)
    /\ zip_buffer' = "created"
    /\ pc' = "loop"
    /\ UNCHANGED <<nRows, idx, row, sku, url, kind, image_url, image_bytes,
                   zipf, skuOf, rowOf, outcome, outcomes, lastMiss, reqs, logs, httpUsed, ui,
                   download>>
    /\ UNCHANGED pureVars

\* A row ends: the loop goes on to the next one. The locals of the try body are
\* dropped here: line 129 resets image_bytes and line 138 assigns image_url before
\* any later read.
RowEnd(how, s) ==
    /\ outcome' = how
    /\ outcomes' = Append(outcomes, IF how \in {"Added", "Failed"} THEN how ELSE "Skipped")
    /\ lastMiss' = IF how = "Added" THEN lastMiss ELSE s
    /\ pc' = "loop"
    /\ image_url' = None
    /\ image_bytes' = NoBytes
    /\ UNCHANGED <<ui, download>>

\* No handler: the error leaves the loop and reaches the caller.
ExceptHandlerReraise ==
    /\ logs' = logs
    /\ outcome' = "Failed"
    /\ outcomes' = Append(outcomes, "Failed")
    /\ lastMiss' = sku
    /\ pc' = "raised"
    /\ image_url' = None
    /\ image_bytes' = NoBytes
    /\ ui' = "error"
    /\ download' = download

\* Lines 163-165: the error is written out and the loop continues.
ExceptHandler ==
    /\ logs' = Append(logs, "error")
    /\ RowEnd("Failed", sku)

\* The branches with the "amazon." test first.
ClassifyUrlAmazonFirst(u) ==
    IF IsAmazonUrl(u) THEN "ProductPage"
    ELSE IF is_direct_image_url(u) THEN "DirectImage"
    ELSE "Unsupported"

\* Lines 131-148: the branch a valid row takes.
ClassifyUrl(u) ==
    IF is_direct_image_url(u) THEN "DirectImage"
    ELSE IF IsAmazonUrl(u) THEN "ProductPage"
    ELSE "Unsupported"

\* Lines 121-123: the next row is read.
ReadRow(skuCell, urlCell) ==
    /\ pc = "loop"
    /\ idx < nRows
    /\ idx' = idx + 1
    /\ row' = [sku |-> skuCell, url |-> urlCell]
    /\ sku' = Strip(Str(skuCell))
    /\ url' = Strip(Str(urlCell))
    /\ reqs' = <<>>
    /\ UNCHANGED <<columns, nRows, zip_buffer, zipf, skuOf, rowOf, httpUsed>>
    /\ UNCHANGED pureVars

\* Lines 125-126: the row is not valid.
RowSkipInvalid ==
    \E skuCell \in SkuCells, urlCell \in UrlCells :
        /\ ReadRow(skuCell, urlCell)
        /\ RowInvalid(sku', url')
        /\ kind' = "none"
        /\ logs' = <<>>
        /\ RowEnd("SkippedInvalidRow", sku')

\* Lines 131-133: a direct image link.
RowDirectImage ==
    \E skuCell \in SkuCells, urlCell \in UrlCells :
        /\ ReadRow(skuCell, urlCell)
        /\ ~RowInvalid(sku', url')
        /\ ClassifyUrl(url') = "DirectImage"
        /\ kind' = "DirectImage"
        /\ logs' = <<>>
        /\ image_url' = url'
        /\ pc' = "download"
        /\ outcome' = "pending"
        /\ UNCHANGED <<image_bytes, outcomes, lastMiss, ui, download>>

\* Lines 135-137: a product page.
RowProductPage ==
    \E skuCell \in SkuCells, urlCell \in UrlCells :
        /\ ReadRow(skuCell, urlCell)
        /\ ~RowInvalid(sku', url')
        /\ ClassifyUrl(url') = "ProductPage"
        /\ kind' = "ProductPage"
        /\ logs' = <<"fetching">>
        /\ pc' = "page"
        /\ outcome' = "pending"
        /\ UNCHANGED <<image_url, image_bytes, outcomes, lastMiss, ui, download>>

\* Lines 144-148: neither.
RowUnsupported ==
    \E skuCell \in SkuCells, urlCell \in UrlCells :
        /\ ReadRow(skuCell, urlCell)
        /\ ~RowInvalid(sku', url')
        /\ ClassifyUrl(url') = "Unsupported"
        /\ kind' = "Unsupported"
        /\ logs' = <<"unsupported">>
        /\ RowEnd("SkippedUnsupportedUrl", sku')

\* The test as "image_url is None".
NoImageFoundIsNone(u) == u = None

\* Line 139: "if not image_url".
NoImageFound(u) == Falsy(u)

\* requests.get: the GET is made, whatever comes of it.
Get(what, target) ==
    /\ reqs' = Append(reqs, [what |-> what, url |-> target])
    /\ httpUsed' = TRUE

midRow == <<columns, nRows, idx, row, sku, url, kind, zip_buffer>>

\* Lines 51-52: the GET of the page fails or its status is an error.
PageGetFails ==
    /\ pc = "page"
    /\ Get("page", url)
    /\ ExceptHandler
    /\ UNCHANGED <<midRow, zipf, skuOf, rowOf>>
    /\ UNCHANGED pureVars

\* Lines 51-84 and 139-141: the page is served and no image is found in it.
PageNoImage ==
    /\ pc = "page"
    /\ Get("page", url)
    /\ \E d \in PipelineDocs : NoImageFound(get_amazon_main_image_url(d))
    /\ logs' = Append(logs, "notfound")
    /\ RowEnd("SkippedNoImageFound", sku)
    /\ UNCHANGED <<midRow, zipf, skuOf, rowOf>>
    /\ UNCHANGED pureVars

\* Lines 51-84 and 138: the page is served and an image URL is resolved from it.
PageResolved ==
    /\ pc = "page"
    /\ Get("page", url)
    /\ \E d \in PipelineDocs :
          /\ ~NoImageFound(get_amazon_main_image_url(d))
          /\ image_url' = get_amazon_main_image_url(d)
    /\ pc' = "download"
    /\ UNCHANGED <<midRow, image_bytes, zipf, skuOf, rowOf, outcome, outcomes, lastMiss, logs, ui,
                   download>>
    /\ UNCHANGED pureVars

\* Lines 40-41: the GET of the image fails or its status is an error.
download_image_bytes_raises ==
    /\ pc = "download"
    /\ Get("image", image_url)
    /\ ExceptHandler
    /\ UNCHANGED <<midRow, zipf, skuOf, rowOf>>
    /\ UNCHANGED pureVars

\* Lines 40-42: the bytes arrive.
download_image_bytes ==
    /\ pc = "download"
    /\ Get("image", image_url)
    /\ image_bytes' \in PipelineImages
    /\ pc' = "normalize"
    /\ UNCHANGED <<midRow, image_url, zipf, skuOf, rowOf, outcome, outcomes, lastMiss, logs, ui,
                   download>>
    /\ UNCHANGED pureVars

\* Line 89: the bytes are no image.
NormalizeFails ==
    /\ pc = "normalize"
    /\ image_bytes.kind = "junk"
    /\ ExceptHandler
    /\ UNCHANGED <<midRow, zipf, skuOf, rowOf, reqs, httpUsed>>
    /\ UNCHANGED pureVars

\* Lines 151-161: the image is normalized and zipf.writestr raises: nothing is
\* written.
WriteFails ==
    /\ pc = "normalize"
    /\ image_bytes.kind = "image"
    /\ normalize_to_canvas(image_bytes.w, image_bytes.h, Target) # {}
    /\ ExceptHandler
    /\ UNCHANGED <<midRow, zipf, skuOf, rowOf, reqs, httpUsed>>
    /\ UNCHANGED pureVars

\* Lines 151-161: the image is normalized and written under a free name.
AddEntry ==
    /\ pc = "normalize"
    /\ image_bytes.kind = "image"
    /\ normalize_to_canvas(image_bytes.w, image_bytes.h, Target) # {}
    /\ zipf' = WriteStr(zipf, EntryName(sku, zipf))
    /\ skuOf' = Append(skuOf, sku)
    /\ rowOf' = Append(rowOf, idx)
    /\ RowEnd("Added", sku)
    /\ UNCHANGED <<midRow, reqs, logs, httpUsed>>
    /\ UNCHANGED pureVars

\* Lines 167-168 and 184-190: the rows are exhausted, the buffer is returned and
\* offered for download.
Finish ==
    /\ pc = "loop"
    /\ idx = nRows
    /\ pc' = "done"
    /\ ui' = "success"
    /\ download' = TRUE
    /\ UNCHANGED <<columns, nRows, idx, row, sku, url, kind, image_url, image_bytes,
                   zip_buffer, zipf, skuOf, rowOf, outcome, outcomes, lastMiss, reqs, logs,
                   httpUsed>>
    /\ UNCHANGED pureVars

Next ==
    \/ ReadExcelMissingColumns
    \/ ReadExcel
    \/ RowSkipInvalid
    \/ RowDirectImage
    \/ RowProductPage
    \/ RowUnsupported
    \/ PageGetFails
    \/ PageNoImage
    \/ PageResolved
    \/ download_image_bytes_raises
    \/ download_image_bytes
    \/ NormalizeFails
    \/ WriteFails
    \/ AddEntry
    \/ Finish

Spec == Init /\ [][Next]_vars

\* ------------------------------------------------------------ normalize_to_canvas alone

\* No run is under way.
PipeIdle ==
    /\ columns = <<>>
    /\ nRows = 0
    /\ PipeInit

InitNorm ==
    /\ PipeIdle
    /\ nw \in Dims /\ nh \in Dims /\ canvas = NoCanvas
    /\ doc = <<>> /\ resolved = Unset

\* Lines 90-102 on an image of nw x nh.
NormalizeCall ==
    /\ canvas = NoCanvas
    /\ canvas' \in normalize_to_canvas(nw, nh, Target)
    /\ UNCHANGED <<nw, nh, doc, resolved>>
    /\ UNCHANGED pipeVars

NextNorm == NormalizeCall

SpecNorm == InitNorm /\ [][NextNorm]_vars

\* ------------------------------------------------------------ get_amazon_main_image_url alone

InitResolve ==
    /\ PipeIdle
    /\ nw = 1 /\ nh = 1 /\ canvas = NoCanvas
    /\ doc \in Docs(MaxImgs) /\ resolved = Unset

\* Lines 53-84 on the page doc.
ResolveCall ==
    /\ resolved = Unset
    /\ resolved' = get_amazon_main_image_url(doc)
    /\ UNCHANGED <<nw, nh, canvas, doc>>
    /\ UNCHANGED pipeVars

NextResolve == ResolveCall

SpecResolve == InitResolve /\ [][NextResolve]_vars

\* ------------------------------------------------------------ properties

\* The SKUs of the sheets.
SkuA == <<"A">>
SkuA1 == <<"A", "-", "1">>

\* The steps that read a row.
RowStep == RowSkipInvalid \/ RowDirectImage \/ RowProductPage \/ RowUnsupported

\* The rows that have ended and written an entry.
AddedRows == { i \in 1..Len(outcomes) : outcomes[i] = "Added" }

\* C1. Row isolation: an error raised while a row is fetched, resolved, normalized
\* or written ends that row only. The run is aborted only before the first row;
\* after a failed row the loop stands ready for the next row or for the return;
\* the run returns only when every row has ended; and the archive holds as many
\* entries as rows that went through all steps.
C1_RowIsolation ==
    /\ pc = "raised" => idx = 0 /\ outcomes = <<>>
    /\ pc \in {"page", "download", "normalize"} => Len(outcomes) = idx - 1
    /\ pc \in {"loop", "done"} => Len(outcomes) = idx
    /\ outcome = "Failed" => pc \in {"loop", "done"} /\ outcomes[idx] = "Failed"
    /\ (pc = "loop" /\ idx < nRows) => ENABLED RowStep
    /\ (pc = "loop" /\ idx = nRows) => ENABLED Finish
    /\ pc = "done" =>
          /\ Len(outcomes) = nRows
          /\ ui = "success" /\ download /\ zip_buffer = "created"
    /\ Len(zipf) = Cardinality(AddedRows)

\* A run of three rows returned its archive: the first and the last row failed,
\* the one between them was added.
C1_Witness ==
    /\ pc = "done"
    /\ outcomes = <<"Failed", "Added", "Failed">>
    /\ Len(zipf) = 1
    /\ download

\* C2. Filename uniqueness: no two entries of the archive share a name.
C2_UniqueNames ==
    \A i, j \in 1..Len(zipf) : i # j => zipf[i] # zipf[j]

\* Three entries: two of the SKU "A" around one of the SKU "A-1".
C2_Witness ==
    /\ skuOf = <<SkuA, SkuA1, SkuA>>
    /\ Len(zipf) = 3

\* The name "<sku>-<k>.jpg" for k from 1 to 9.
ClaimName(s, k) ==
    s \o <<"-", <<"1", "2", "3", "4", "5", "6", "7", "8", "9">>[k], ".", "j", "p", "g">>

\* C3. Per-SKU numbering: the k-th entry of a SKU is named "<sku>-k.jpg", whatever
\* other rows were added, failed or skipped before it; two added rows of "A" give
\* "A-1.jpg" and "A-2.jpg".
C3_PerSkuNumbering ==
    /\ Len(skuOf) = Len(zipf)
    /\ \A i \in 1..Len(zipf) :
          zipf[i] = ClaimName(skuOf[i],
                              Cardinality({ j \in 1..i : skuOf[j] = skuOf[i] }))
    /\ skuOf = <<SkuA, SkuA>> =>
          zipf = << <<"A", "-", "1", ".", "j", "p", "g">>,
                    <<"A", "-", "2", ".", "j", "p", "g">> >>

\* Rows 1 and 3, both of "A", were added and row 2, of "A" too, failed:
\* the entries are "A-1.jpg" and "A-2.jpg".
C3_Witness ==
    /\ skuOf = <<SkuA, SkuA>>
    /\ rowOf = <<1, 3>>
    /\ outcomes = <<"Added", "Failed", "Added">>
    /\ lastMiss = SkuA
    /\ zipf[2] = <<"A", "-", "2", ".", "j", "p", "g">>

\* The rule of the classification, on the characters of the URL.
ClaimSuffix(u) ==
    \E n \in {4, 5} :
        /\ Len(u) >= n
        /\ [i \in 1..n |-> LowerChar(u[Len(u) - n + i])] \in ImageSuffixes
ClaimAmazon(u) ==
    \E i \in 1..Len(u) :
        /\ i + 6 <= Len(u)
        /\ \A k \in 1..7 : u[i + k - 1] = S_amazon[k]
ClaimClass(u) ==
    IF ClaimSuffix(u) THEN "DirectImage"
    ELSE IF ClaimAmazon(u) THEN "ProductPage"
    ELSE "Unsupported"

\* C4. URL classification: a row that is classified takes the branch DirectImage
\* if its lowercased URL ends with an image suffix, else ProductPage if the URL
\* contains "amazon.", else Unsupported. A direct image is fetched from the URL
\* itself and no page is requested for it; an unsupported row requests nothing.
C4_UrlClassification ==
    (idx >= 1 /\ kind # "none") =>
        /\ kind = ClaimClass(url)
        /\ url = U_both => kind = "DirectImage"
        /\ url = U_direct => kind = "DirectImage"
        /\ url = U_mid => kind = "ProductPage"
        /\ url \in {U_capital, U_query} => kind = "Unsupported"
        /\ kind = "DirectImage" =>
              /\ \A i \in 1..Len(reqs) : reqs[i] = [what |-> "image", url |-> url]
              /\ logs \in {<<>>, <<"error">>}
        /\ kind = "ProductPage" =>
              /\ logs # <<>> /\ logs[1] = "fetching"
              /\ reqs # <<>> => reqs[1] = [what |-> "page", url |-> url]
        /\ kind = "Unsupported" =>
              /\ reqs = <<>>
              /\ logs = <<"unsupported">>
              /\ outcome = "SkippedUnsupportedUrl"

\* A URL that contains "amazon." and ends with ".png" was fetched once, as an
\* image, and its row was added.
C4_Witness ==
    /\ url = U_both
    /\ kind = "DirectImage"
    /\ reqs = <<[what |-> "image", url |-> U_both]>>
    /\ outcome = "Added"

\* A string of white space only, the empty one included.
Blank(s) == \A i \in 1..Len(s) : s[i] \in WhiteSpace

\* The rows the skip is claimed for: the sku or the url is empty or white space,
\* or the url is "nan".
ClaimSkipped ==
    \/ Blank(Str(row.sku))
    \/ Blank(Str(row.url))
    \/ sku = <<>>
    \/ url = <<>>
    \/ row.url = NanCell
    \/ url = S_nan

\* C5. Invalid-row skip: such a row ends at once as SkippedInvalidRow: it is not
\* classified, no GET is made, nothing is logged, no entry is written for it, no
\* error is raised, and the loop stands ready for the next row.
C5_InvalidRowSkip ==
    (idx >= 1 /\ ClaimSkipped) =>
        /\ outcome = "SkippedInvalidRow"
        /\ kind = "none"
        /\ reqs = <<>>
        /\ logs = <<>>
        /\ pc \in {"loop", "done"}
        /\ Len(outcomes) = idx /\ outcomes[idx] = "Skipped"
        /\ \A i \in 1..Len(rowOf) : rowOf[i] # idx
        /\ (pc = "loop" /\ idx < nRows) => ENABLED RowStep

\* A row of sku "A" whose url cell is missing, so that its url is "nan", was
\* skipped as the last of three rows; the row before it was added.
C5_Witness ==
    /\ idx = 3
    /\ row = [sku |-> StrCell(SkuA), url |-> NanCell]
    /\ url = S_nan
    /\ outcome = "SkippedInvalidRow"
    /\ outcomes = <<"Skipped", "Added", "Skipped">>
    /\ Len(zipf) = 1

\* C6. Normalization geometry: the canvas is 1500 x 1500 whatever the input; an
\* image within 1500 x 1500 keeps its size; a larger one is scaled to between 1
\* and 1500 in both dimensions and to no more than its exact share of the longer
\* side; the offsets are the floors of half the margins, are not negative, and
\* leave the pasted image inside the canvas.
C6_NormalizationGeometry ==
    canvas # NoCanvas =>
        /\ canvas.canvas_w = 1500 /\ canvas.canvas_h = 1500
        /\ (nw <= 1500 /\ nh <= 1500) =>
              /\ ~canvas.resized
              /\ canvas.w = nw /\ canvas.h = nh
        /\ (nw > 1500 \/ nh > 1500) =>
              /\ canvas.resized
              /\ canvas.w \in 1..1500 /\ canvas.h \in 1..1500
              /\ canvas.w = 1 \/ canvas.w * Max(nw, nh) <= nw * 1500
              /\ canvas.h = 1 \/ canvas.h * Max(nw, nh) <= nh * 1500
        /\ 2 * canvas.offset_x \in {1500 - canvas.w, 1500 - canvas.w - 1}
        /\ 2 * canvas.offset_y \in {1500 - canvas.h, 1500 - canvas.h - 1}
        /\ canvas.offset_x >= 0 /\ canvas.offset_y >= 0
        /\ canvas.offset_x + canvas.w <= 1500
        /\ canvas.offset_y + canvas.h <= 1500

\* An image of 3000 x 1 was scaled to 1500 x 1, its height held up at 1, and
\* pasted at (0, 749).
C6_Witness ==
    /\ nw = 3000 /\ nh = 1
    /\ canvas.resized
    /\ canvas.w = 1500 /\ canvas.h = 1
    /\ canvas.offset_x = 0 /\ canvas.offset_y = 749

\* A column of the sheet bears the name, once trimmed and lowercased.
ClaimHasColumn(name) ==
    \E i \in 1..Len(columns) : Lower(Strip(columns[i])) = name

\* C7. Top-level abort: a sheet without a sku or without a url column never gets
\* past the reading of the sheet. No row is read, no GET is made, no buffer and
\* no archive are created, no download is offered, and once the error is raised
\* the page shows it.
C7_TopLevelAbort ==
    ~(ClaimHasColumn(<<"s", "k", "u">>) /\ ClaimHasColumn(<<"u", "r", "l">>)) =>
        /\ pc \in {"start", "raised"}
        /\ pc = "start" => ENABLED ReadExcelMissingColumns /\ ~ENABLED ReadExcel
        /\ pc = "raised" => ui = "error"
        /\ ui # "success"
        /\ idx = 0 /\ outcomes = <<>>
        /\ ~httpUsed /\ reqs = <<>>
        /\ zip_buffer = "unset" /\ zipf = <<>>
        /\ ~download

\* A sheet of three rows headed "SKU " and "link" was refused.
C7_Witness ==
    /\ columns = << <<"s", "k", "u">>, <<"l", "i", "n", "k">> >>
    /\ nRows = 3
    /\ pc = "raised"
    /\ ui = "error"

\* The landing image of the page: the first img element of that id.
HasLanding == \E i \in 1..Len(doc) : doc[i].id = "landingImage"
Landing ==
    doc[CHOOSE i \in 1..Len(doc) :
            /\ doc[i].id = "landingImage"
            /\ \A j \in 1..(i - 1) : doc[j].id # "landingImage"]

\* An attribute that is there and not empty.
NonEmpty(v) == v # None /\ v # <<>>

\* The values of the dynamic image map that are non-empty JSON mappings, and the
\* first key of each.
ClaimIsMap(d) == d \in {DynOne, DynTwo, DynEmptyKey}
ClaimFirstKey(d) ==
    CASE d = DynOne -> A_key1
      [] d = DynTwo -> A_key2
      [] d = DynEmptyKey -> <<>>

\* The landing image yields a URL.
LandingYields ==
    /\ HasLanding
    /\ NonEmpty(Landing.hires) \/ ClaimIsMap(Landing.dyn) \/ NonEmpty(Landing.src)

\* The sources that contain "SL1500" or end with .jpg, .jpeg, .png or .webp.
ClaimFallbackHit(src) == src \in {A_src, A_sl}

\* C8. Product-page image resolution, first match wins: the high-resolution
\* attribute of the landing image when not empty; else the first key of its
\* dynamic image map when that is a non-empty mapping, a malformed, empty or
\* non-mapping value being passed over; else its source; else the source of the
\* first img element, in document order, that contains "SL1500" or ends with an
\* image suffix; None only when nothing of this matches.
C8_ResolutionChain ==
    resolved # Unset =>
        /\ (HasLanding /\ NonEmpty(Landing.hires)) => resolved = Landing.hires
        /\ (HasLanding /\ ~NonEmpty(Landing.hires) /\ ClaimIsMap(Landing.dyn)) =>
              resolved = ClaimFirstKey(Landing.dyn)
        /\ (HasLanding /\ ~NonEmpty(Landing.hires) /\ ~ClaimIsMap(Landing.dyn)
              /\ NonEmpty(Landing.src)) =>
              resolved = Landing.src
        /\ ~LandingYields =>
              \/ \E i \in 1..Len(doc) :
                    /\ ClaimFallbackHit(doc[i].src)
                    /\ \A j \in 1..(i - 1) : ~ClaimFallbackHit(doc[j].src)
                    /\ resolved = doc[i].src
              \/ /\ \A i \in 1..Len(doc) : ~ClaimFallbackHit(doc[i].src)
                 /\ resolved = None
        /\ resolved = None =>
              /\ ~LandingYields
              /\ \A i \in 1..Len(doc) : ~ClaimFallbackHit(doc[i].src)
        /\ doc = <<Img("landingImage", None, DynOne, None)>> => resolved = A_key1

\* The landing image has an empty high-resolution attribute and the map
\* {"i2": ..., "i1.jpg": ..., "i2": ...}: the page resolved to "i2", the first key,
\* and not to the source of the element.
C8_Witness ==
    /\ doc = <<Img("other", None, NoDyn, A_sl), Img("landingImage", <<>>, DynTwo, A_src)>>
    /\ resolved = A_key2

\* The GETs of the row so far, by what they fetch.
PageGets == { i \in 1..Len(reqs) : reqs[i].what = "page" }
ImageGets == { i \in 1..Len(reqs) : reqs[i].what = "image" }

\* The order and the number of the GETs of a row: at most one for a direct image,
\* at most two for a product page, the page first and the image after it and only
\* from a URL that was resolved, none for any other row; a row that ended as
\* SkippedNoImageFound fetched the page and nothing else and wrote no entry.
C9_GetsOfRow ==
    /\ kind = "DirectImage" =>
          /\ Len(reqs) <= 1
          /\ PageGets = {}
          /\ \A i \in ImageGets : reqs[i].url = url
    /\ kind = "ProductPage" =>
          /\ Len(reqs) <= 2
          /\ PageGets \subseteq {1} /\ ImageGets \subseteq {2}
          /\ \A i \in PageGets : reqs[i].url = url
          /\ \A i \in ImageGets : reqs[i].url # None /\ reqs[i].url # <<>>
          /\ pc = "page" <=> reqs = <<>>
          /\ pc = "download" => Len(reqs) = 1 /\ image_url # None /\ image_url # <<>>
          /\ pc = "normalize" => Len(reqs) = 2 /\ reqs[2].url = image_url
    /\ kind \in {"Unsupported", "none"} => reqs = <<>>
    /\ outcome = "SkippedNoImageFound" =>
          /\ kind = "ProductPage"
          /\ reqs = <<[what |-> "page", url |-> url]>>
          /\ logs = <<"fetching", "notfound">>
          /\ image_bytes = NoBytes
          /\ pc \in {"loop", "done"}
          /\ \A i \in 1..Len(rowOf) : rowOf[i] # idx
          /\ (pc = "loop" /\ idx < nRows) => ENABLED RowStep

\* No URL is requested twice for the row.
NoUrlTwice ==
    \A i, j \in 1..Len(reqs) : i # j => reqs[i].url # reqs[j].url

\* C9 as claimed: the order and the number of the GETs of a row, and no URL
\* requested more than once for a row.
C9_AsClaimed == C9_GetsOfRow /\ NoUrlTwice

\* C9 as amended: the order and the number of the GETs of a row, and no fetch
\* made again: the URL of a product page is requested a second time only as the
\* image the page itself resolved to.
C9_NoRetries ==
    /\ C9_GetsOfRow
    /\ Cardinality(PageGets) <= 1 /\ Cardinality(ImageGets) <= 1
    /\ ~NoUrlTwice => kind = "ProductPage" /\ reqs[2] = [what |-> "image", url |-> url]

\* A product page was fetched, resolved to "i1.jpg", that image fetched after
\* it, and the row added.
C9_Witness ==
    /\ kind = "ProductPage"
    /\ reqs = <<[what |-> "page", url |-> U_page], [what |-> "image", url |-> A_key1]>>
    /\ outcome = "Added"

\* The archive is as it was, or has one entry more at its end.
ZipSameOrAppended ==
    \/ zipf' = zipf
    \/ /\ Len(zipf') = Len(zipf) + 1
       /\ SubSeq(zipf', 1, Len(zipf)) = zipf

\* C10. Archive frame condition: every step leaves the archive as it was or
\* appends one entry to it; the end of a row appends exactly one entry when the
\* row was added and none when it was skipped or failed; no step but the end of
\* an added row changes the archive; and the entries stand in the order of the
\* rows that wrote them.
C10_ArchiveFrame ==
    /\ [][ /\ ZipSameOrAppended
           /\ Len(outcomes') = Len(outcomes) + 1 =>
                 /\ SubSeq(outcomes', 1, Len(outcomes)) = outcomes
                 /\ outcome' = "Added" => Len(zipf') = Len(zipf) + 1
                 /\ outcome' # "Added" => zipf' = zipf
           /\ outcomes' = outcomes => zipf' = zipf ]_vars
    /\ [](/\ Len(rowOf) = Len(zipf)
          /\ \A i, j \in 1..Len(rowOf) : i < j => rowOf[i] < rowOf[j])

\* Rows 1 and 3 were added and row 2, skipped, left the archive alone.
C10_Witness ==
    /\ outcomes = <<"Added", "Skipped", "Added">>
    /\ rowOf = <<1, 3>>
    /\ Len(zipf) = 2
    /\ pc = "done"

====
